---------------------------- MODULE Spec2Model ----------------------------
(***************************************************************************)
(* Model of UltraSonicSonar.ipynb: the UltraSonicSonar class (constructor, *)
(* init_hw, get_range) driving an HC-SR04 through RPi.GPIO and time.time(). *)
(*                                                                         *)
(* Units.  Time is counted in milliseconds (one tick = 1 ms) and lengths   *)
(* in half millimetres, so that every quantity of the code is an integer:  *)
(*   SONIC_SPEED      = 343.0 m/s = 686 half-mm per ms                     *)
(*   HALF_SONIC_SPEED = 171.5 m/s = 343 half-mm per ms                     *)
(*   max_range / SONIC_SPEED * 1000  (ms)  = max_range / 686               *)
(* Floating point rounding is not modelled: arithmetic is exact.           *)
(* A float that may be NaN is a record [nan, val].                         *)
(***************************************************************************)
EXTENDS Integers, Sequences, FiniteSets, TLC

\* ------------------------------------------------------------------ bounds
\* at most this many ticks pass between two consecutive steps of a call
MaxStep == 1
\* get_range calls started in one behaviour
MaxCalls == 3
\* once a call has returned, an echo still high falls within this many ticks of its rise
MaxWidth == 6
\* the caller starts its k-th get_range no earlier than (k-1) * CallPeriod
CallPeriod == 24
\* a simulated target answers at most this many ticks after the trigger
MaxDelay == 3

\* the wall clock is set back by at most this many ticks at a time
MaxSkew == 1

\* ------------------------------------------------------- program constants
SONIC_SPEED == 686
HALF_SONIC_SPEED == SONIC_SPEED \div 2

NaN == [nan |-> TRUE, val |-> 0]
Num(v) == [nan |-> FALSE, val |-> v]
isnan(x) == x.nan

\* math.ceil(a / b) for b > 0, exact
CeilDiv(a, b) == -((-a) \div b)

\* math.radians, in milliradians (pi/180 = 31416/1800 mrad per degree)
Radians(deg) == (deg * 31416) \div 1800

\* line 44: ceil(max_range / SONIC_SPEED * 1000) / 1000 seconds, in ms
MaxWaitRoundedDown(max_range) == max_range \div SONIC_SPEED
MaxWaitTime(max_range) == CeilDiv(max_range, SONIC_SPEED)

\* lines 39-42
FieldOfView(field_of_view) ==
    IF ~isnan(field_of_view) THEN Num(Radians(field_of_view.val)) ELSE NaN

\* ---------------------------------------------------------- the three sonars
\* name, trigger GPIO and echo GPIO of the sampling cell's sensors
Sensors == 1..3
CellArgs(s) ==
    CASE s = 1 -> [name |-> "right",  gpio_trigger |-> 15, gpio_echo |-> 14]
      [] s = 2 -> [name |-> "center", gpio_trigger |-> 23, gpio_echo |-> 24]
      [] s = 3 -> [name |-> "left",   gpio_trigger |-> 25, gpio_echo |-> 16]
Pins == {15, 14, 23, 24, 25, 16}
EchoPins == {CellArgs(s).gpio_echo : s \in Sensors}
\* the HC-SR04 wired to trigger pin p answers on this echo pin
EchoOf(p) == CellArgs(CHOOSE s \in Sensors : CellArgs(s).gpio_trigger = p).gpio_echo

\* constructor arguments (min_range, max_range, field_of_view) tried by the
\* caller, in half millimetres and degrees: valid bounds with a long and a
\* short range, equal, inverted and negative bounds
SonarInputs ==
    { <<0, 4750, Num(0)>>, <<400, 1400, NaN>>, <<400, 400, Num(90)>>,
      <<1400, 400, NaN>>, <<-100, 400, Num(0)>>, <<0, -100, Num(90)>> }

Absent == [constructed |-> FALSE]

VARIABLES
    sensors,               \* s -> the object's private fields, or Absent
    numbering,             \* RPi.GPIO pin numbering mode: "UNSET" | "BCM"
    gpio,                  \* pin -> [dir : "NONE" | "IN" | "OUT", level : 0 | 1]
    echo,                  \* echo pin -> [phase : "low" | "armed" | "high", rise, fall]
    now,                   \* the clock read by time.time()
    sinceStep,             \* ticks since the running call's last step
    pc,                    \* the statement about to run, or the way the call ended
    cur,                   \* the sensor whose method is running
    start_time, stop_time, iteration_start_time,   \* get_range locals
    result,                \* value returned by the get_range that has just returned
    kept,                  \* [has, val]: the result a comparing caller kept from the call before
    target,                \* [delay, width] of the simulated target of a stable run
    cell,                  \* the sampling cell: "off" (not run) | "try" | "done"
    parked,                \* the suspended thread of a two-thread run: its pc, cur and locals
    calls,                 \* get_range calls started
    sawLow, sawHigh        \* the running call has read the echo line low / high

vars == <<sensors, numbering, gpio, echo, now, sinceStep, pc, cur,
          start_time, stop_time, iteration_start_time, result, kept, target,
          cell, parked, calls, sawLow, sawHigh>>

hw == <<numbering, gpio, echo>>
locals == <<start_time, stop_time, iteration_start_time>>
NoneKept == [has |-> FALSE, val |-> NaN]
NoTarget == [delay |-> -1, width |-> 0]
\* a thread that has yet to call anything, bound to sensor s
NoThread(s) ==
    [pc |-> "idle", cur |-> s, start_time |-> 0, stop_time |-> 0,
     iteration_start_time |-> 0, sawLow |-> FALSE, sawHigh |-> FALSE,
     result |-> NaN, sinceStep |-> 0]
reads == <<sawLow, sawHigh>>

Self == sensors[cur]

Started ==
    /\ sensors = [s \in Sensors |-> Absent]
    /\ numbering = "UNSET"
    /\ gpio = [p \in Pins |-> [dir |-> "NONE", level |-> 0]]
    /\ echo = [p \in EchoPins |-> [phase |-> "low", rise |-> -1, fall |-> -1]]
    /\ now = 0
    /\ sinceStep = 0
    /\ pc = "idle"
    /\ cur = 1
    /\ start_time = 0 /\ stop_time = 0 /\ iteration_start_time = 0
    /\ result = NaN
    /\ kept = NoneKept
    /\ parked = NoThread(2)
    /\ calls = 0
    /\ sawLow = FALSE /\ sawHigh = FALSE

Init == Started /\ target = NoTarget /\ cell = "off"

\* ------------------------------------------------------------- __init__
\* lines 29-44: no argument is validated
NewSonar(s, min_range, max_range, field_of_view) ==
    [constructed    |-> TRUE,
     name           |-> CellArgs(s).name,
     gpio_trigger   |-> CellArgs(s).gpio_trigger,
     gpio_echo      |-> CellArgs(s).gpio_echo,
     min_range      |-> min_range,
     max_range      |-> max_range,
     field_of_view  |-> FieldOfView(field_of_view),
     max_wait_time  |-> MaxWaitTime(max_range)]

Construct(s, min_range, max_range, field_of_view) ==
    /\ pc = "idle"
    /\ ~sensors[s].constructed
    /\ sensors' = [sensors EXCEPT ![s] = NewSonar(s, min_range, max_range, field_of_view)]
    /\ UNCHANGED <<hw, now, sinceStep, pc, cur, locals, result, kept, target, cell, parked, calls, reads>>

\* ------------------------------------------------------------- RPi.GPIO
\* GPIO.setup needs a numbering mode; GPIO.output needs a channel set up as
\* OUT; GPIO.input needs a channel set up: otherwise they raise RuntimeError.
CanSetup == numbering = "BCM"
CanOutput(p) == gpio[p].dir = "OUT"
CanInput(p) == gpio[p].dir # "NONE"
\* the level GPIO.input reads: the sensor's echo signal, or the driven level
InputLevel(p) ==
    IF gpio[p].dir = "OUT" THEN gpio[p].level
    ELSE IF p \in EchoPins /\ echo[p].phase = "high" THEN 1 ELSE 0
Armed == [phase |-> "armed", rise |-> -1, fall |-> -1]

\* ------------------------------------------------------------- init_hw
\* line 49: GPIO.setmode(GPIO.BCM)
InitHw49(s) ==
    /\ pc = "idle"
    /\ sensors[s].constructed
    /\ cur' = s
    /\ numbering' = "BCM"
    /\ pc' = "i51"
    /\ sinceStep' = 0
    /\ UNCHANGED <<sensors, gpio, echo, now, locals, result, kept, target, cell, parked, calls, reads>>

\* line 51: GPIO.setup(self.__gpio_trigger, GPIO.OUT)
InitHw51 ==
    /\ pc = "i51"
    /\ IF CanSetup
         THEN /\ gpio' = [gpio EXCEPT ![Self.gpio_trigger].dir = "OUT"]
              /\ pc' = "i52"
         ELSE /\ pc' = "raised"
              /\ UNCHANGED gpio
    /\ sinceStep' = 0
    /\ UNCHANGED <<sensors, numbering, echo, now, cur, locals, result, kept, target, cell, parked, calls, reads>>

\* line 52 writing every output line instead of the sensor's own
InitHw52AllLow ==
    /\ pc = "i52"
    /\ IF CanOutput(Self.gpio_trigger)
         THEN /\ gpio' = [p \in Pins |->
                            IF gpio[p].dir = "OUT" THEN [dir |-> "OUT", level |-> 0]
                            ELSE gpio[p]]
              /\ pc' = "i53"
         ELSE /\ pc' = "raised"
              /\ UNCHANGED gpio
    /\ sinceStep' = 0
    /\ UNCHANGED <<sensors, numbering, echo, now, cur, locals, result, kept, target, cell, parked, calls, reads>>

\* line 52: GPIO.output(self.__gpio_trigger, GPIO.LOW)
InitLevelHigh == 0 + 1
InitLevel == 0
InitHw52 ==
    /\ pc = "i52"
    /\ IF CanOutput(Self.gpio_trigger)
         THEN /\ gpio' = [gpio EXCEPT ![Self.gpio_trigger].level = InitLevel]
              /\ pc' = "i53"
         ELSE /\ pc' = "raised"
              /\ UNCHANGED gpio
    /\ sinceStep' = 0
    /\ UNCHANGED <<sensors, numbering, echo, now, cur, locals, result, kept, target, cell, parked, calls, reads>>

\* line 53: GPIO.setup(self.__gpio_echo, GPIO.IN), then return
InitHw53 ==
    /\ pc = "i53"
    /\ IF CanSetup
         THEN /\ gpio' = [gpio EXCEPT ![Self.gpio_echo].dir = "IN"]
              /\ pc' = "r53"
         ELSE /\ pc' = "raised"
              /\ UNCHANGED gpio
    /\ sinceStep' = 0
    /\ UNCHANGED <<sensors, numbering, echo, now, cur, locals, result, kept, target, cell, parked, calls, reads>>

\* ------------------------------------------------------------ get_range
\* time.time()
TimeTime == now

\* line 85 / line 91: what the two timeouts return
NoEchoAsMaxRange(self) == Num(self.max_range)
NoEchoResult(self) == NaN
MaxRangeAsNoEcho(self) == NaN
MaxRangeResult(self) == Num(self.max_range)

\* lines 84 and 90: the timeout test of both wait loops
TimedOutAfterTwice(t, self) == t - iteration_start_time > 2 * self.max_wait_time + 1
TimedOut(t, self) == t - iteration_start_time > self.max_wait_time

\* lines 94-96
RangeM(start, stop) == (stop - start) * HALF_SONIC_SPEED

\* lines 98-102
ClampUpperOnly(range_m, self) ==
    IF range_m > self.max_range THEN self.max_range ELSE range_m
Clamp(range_m, self) ==
    LET capped == IF range_m > self.max_range THEN self.max_range ELSE range_m
    IN  IF capped < self.min_range THEN self.min_range ELSE capped

\* line 73: GPIO.output(self.__gpio_trigger, GPIO.HIGH)
GetRange73(s) ==
    /\ pc = "idle"
    /\ sensors[s].constructed
    /\ calls < MaxCalls
    /\ calls' = calls + 1
    /\ cur' = s
    /\ IF CanOutput(sensors[s].gpio_trigger)
         THEN /\ gpio' = [gpio EXCEPT ![sensors[s].gpio_trigger].level = 1]
              /\ pc' = "g74"
         ELSE /\ pc' = "raised"
              /\ UNCHANGED gpio
    /\ sinceStep' = 0
    /\ UNCHANGED <<sensors, numbering, echo, now, locals, result, kept, target, cell, parked, reads>>

\* line 74: time.sleep(0.00001) has returned
GetRange74 ==
    /\ pc = "g74"
    /\ pc' = "g75"
    /\ sinceStep' = 0
    /\ UNCHANGED <<sensors, hw, now, cur, locals, result, kept, target, cell, parked, calls, reads>>

\* line 75 without its write: the trigger line is left high
GetRange75LeavesHigh ==
    /\ pc = "g75"
    /\ IF CanOutput(Self.gpio_trigger)
         THEN /\ pc' = "g77"
         ELSE /\ pc' = "raised"
    /\ sinceStep' = 0
    /\ UNCHANGED <<sensors, hw, now, cur, locals, result, kept, target, cell, parked, calls, reads>>

\* line 75: GPIO.output(self.__gpio_trigger, GPIO.LOW); the falling edge of
\* the trigger pulse makes the HC-SR04 send its burst and answer with one
\* echo pulse
GetRange75 ==
    /\ pc = "g75"
    /\ IF CanOutput(Self.gpio_trigger)
         THEN /\ gpio' = [gpio EXCEPT ![Self.gpio_trigger].level = 0]
              /\ echo' = IF gpio[Self.gpio_trigger].level = 1
                            THEN [echo EXCEPT ![EchoOf(Self.gpio_trigger)] = Armed]
                            ELSE echo
              /\ pc' = "g77"
         ELSE /\ pc' = "raised"
              /\ UNCHANGED <<gpio, echo>>
    /\ sinceStep' = 0
    /\ UNCHANGED <<sensors, numbering, now, cur, locals, result, kept, target, cell, parked, calls, reads>>

\* line 77 without its assignment: start_time keeps an earlier value
GetRange77Stale ==
    /\ pc = "g77"
    /\ pc' = "g78"
    /\ sinceStep' = 0
    /\ UNCHANGED <<sensors, hw, now, cur, locals, result, kept, target, cell, parked, calls, reads>>

\* line 77: start_time = time.time()
GetRange77 ==
    /\ pc = "g77"
    /\ start_time' = TimeTime
    /\ pc' = "g78"
    /\ sinceStep' = 0
    /\ UNCHANGED <<sensors, hw, now, cur, stop_time, iteration_start_time, result, kept, target, cell, parked, calls, reads>>

\* line 78: stop_time = time.time()
GetRange78 ==
    /\ pc = "g78"
    /\ stop_time' = TimeTime
    /\ pc' = "g79"
    /\ sinceStep' = 0
    /\ UNCHANGED <<sensors, hw, now, cur, start_time, iteration_start_time, result, kept, target, cell, parked, calls, reads>>

\* line 79: iteration_start_time = time.time()
GetRange79 ==
    /\ pc = "g79"
    /\ iteration_start_time' = TimeTime
    /\ pc' = "g82"
    /\ sinceStep' = 0
    /\ UNCHANGED <<sensors, hw, now, cur, start_time, stop_time, result, kept, target, cell, parked, calls, reads>>

\* line 82 with a loop condition that a high reading does not end
GetRange82NeverLeaves ==
    /\ pc = "g82"
    /\ IF ~CanInput(Self.gpio_echo)
         THEN /\ pc' = "raised"
              /\ UNCHANGED reads
         ELSE /\ pc' = "g83"
              /\ sawLow' = (sawLow \/ InputLevel(Self.gpio_echo) = 0)
              /\ sawHigh' = (sawHigh \/ InputLevel(Self.gpio_echo) = 1)
    /\ sinceStep' = 0
    /\ UNCHANGED <<sensors, hw, now, cur, locals, result, kept, target, cell, parked, calls>>

\* line 82: while GPIO.input(self.__gpio_echo) == 0
GetRange82 ==
    /\ pc = "g82"
    /\ IF ~CanInput(Self.gpio_echo)
         THEN /\ pc' = "raised"
              /\ UNCHANGED reads
         ELSE IF InputLevel(Self.gpio_echo) = 0
         THEN /\ pc' = "g83"
              /\ sawLow' = TRUE
              /\ UNCHANGED sawHigh
         ELSE /\ pc' = "g88"
              /\ sawHigh' = TRUE
              /\ UNCHANGED sawLow
    /\ sinceStep' = 0
    /\ UNCHANGED <<sensors, hw, now, cur, locals, result, kept, target, cell, parked, calls>>

\* lines 83-85: start_time = time.time(); on timeout return math.nan
GetRange83 ==
    /\ pc = "g83"
    /\ start_time' = TimeTime
    /\ IF TimedOut(start_time', Self)
         THEN /\ result' = NoEchoResult(Self)
              /\ pc' = "r85"
         ELSE /\ pc' = "g82"
              /\ UNCHANGED result
    /\ sinceStep' = 0
    /\ UNCHANGED <<sensors, hw, now, cur, stop_time, iteration_start_time, kept, target, cell, parked, calls, reads>>

\* line 88: while GPIO.input(self.__gpio_echo) == 1
GetRange88 ==
    /\ pc = "g88"
    /\ IF ~CanInput(Self.gpio_echo)
         THEN /\ pc' = "raised"
              /\ UNCHANGED reads
         ELSE IF InputLevel(Self.gpio_echo) = 1
         THEN /\ pc' = "g89"
              /\ sawHigh' = TRUE
              /\ UNCHANGED sawLow
         ELSE /\ pc' = "g94"
              /\ sawLow' = TRUE
              /\ UNCHANGED sawHigh
    /\ sinceStep' = 0
    /\ UNCHANGED <<sensors, hw, now, cur, locals, result, kept, target, cell, parked, calls>>

\* lines 89-91: stop_time = time.time(); on timeout return self.__max_range
GetRange89 ==
    /\ pc = "g89"
    /\ stop_time' = TimeTime
    /\ IF TimedOut(stop_time', Self)
         THEN /\ result' = MaxRangeResult(Self)
              /\ pc' = "r91"
         ELSE /\ pc' = "g88"
              /\ UNCHANGED result
    /\ sinceStep' = 0
    /\ UNCHANGED <<sensors, hw, now, cur, start_time, iteration_start_time, kept, target, cell, parked, calls, reads>>

\* lines 94-104 with the range also stored in the object
GetRange94StoresRange ==
    /\ pc = "g94"
    /\ result' = Num(Clamp(RangeM(start_time, stop_time), Self))
    /\ sensors' = [sensors EXCEPT ![cur].max_range = result'.val]
    /\ pc' = "r104"
    /\ sinceStep' = 0
    /\ UNCHANGED <<hw, now, cur, locals, kept, target, cell, parked, calls, reads>>

\* lines 94-104: compute, clamp and return range_m
GetRange94 ==
    /\ pc = "g94"
    /\ result' = Num(Clamp(RangeM(start_time, stop_time), Self))
    /\ pc' = "r104"
    /\ sinceStep' = 0
    /\ UNCHANGED <<sensors, hw, now, cur, locals, kept, target, cell, parked, calls, reads>>

\* ------------------------------------------------------------ the caller
Measuring == {"g74", "g75", "g77", "g78", "g79", "g82", "g83", "g88", "g89", "g94"}
Running == {"i51", "i52", "i53"} \cup Measuring
Returned == {"r85", "r91", "r104"}
Ended == Returned \cup {"r53", "raised"}

\* the call has ended and its caller goes on; the locals are gone, the pulse
\* of the call is no longer followed, and the caller idles until its next
\* sampling period
Forgotten(e) == [phase |-> e.phase, rise |-> -1, fall |-> -1]
Leave ==
    /\ pc \in Ended
    /\ pc' = "idle"
    /\ start_time' = 0 /\ stop_time' = 0 /\ iteration_start_time' = 0
    /\ sawLow' = FALSE /\ sawHigh' = FALSE
    /\ sinceStep' = 0
    /\ echo' = [p \in EchoPins |-> Forgotten(echo[p])]
    /\ now' = IF now < calls * CallPeriod THEN calls * CallPeriod ELSE now
    /\ result' = NaN
    /\ UNCHANGED <<sensors, numbering, gpio, cur, target, cell, parked, calls>>

\* the sampling cell prints the result and keeps nothing
Resume == Leave /\ UNCHANGED kept

\* a caller that compares successive results keeps the one just returned
ResumeKeep ==
    /\ Leave
    /\ kept' = IF pc \in Returned THEN [has |-> TRUE, val |-> result] ELSE kept

\* line 145: GPIO.cleanup() releases every channel and the numbering mode
Cleanup ==
    /\ pc = "idle"
    /\ numbering = "BCM"
    /\ numbering' = "UNSET"
    /\ gpio' = [p \in Pins |-> [dir |-> "NONE", level |-> 0]]
    /\ UNCHANGED <<sensors, echo, now, sinceStep, pc, cur, locals, result, kept, target, cell, parked, calls, reads>>

\* ------------------------------------------------------- the environment
\* a millisecond passes: between two steps of a running get_range (the only
\* code that reads the clock), or after a call while the echo pulse it left
\* high has yet to fall
Tick ==
    /\ \/ pc \in Measuring /\ sinceStep < MaxStep
       \/ /\ pc \in Ended
          /\ echo[Self.gpio_echo].phase = "high"
          /\ now - echo[Self.gpio_echo].rise < MaxWidth
    /\ now' = now + 1
    /\ sinceStep' = IF pc \in Measuring THEN sinceStep + 1 ELSE sinceStep
    /\ UNCHANGED <<sensors, hw, pc, cur, locals, result, kept, target, cell, parked, calls, reads>>

\* the echo line of a triggered sensor rises: the burst has been sent
EchoRise(p) ==
    /\ pc # "idle"
    /\ echo[p].phase = "armed"
    /\ echo' = [echo EXCEPT ![p] = [phase |-> "high", rise |-> now, fall |-> -1]]
    /\ UNCHANGED <<sensors, numbering, gpio, now, sinceStep, pc, cur, locals, result, kept, target, cell, parked, calls, reads>>

\* the echo line falls: the reflection has arrived (or the sensor gave up)
EchoFall(p) ==
    /\ pc # "idle"
    /\ echo[p].phase = "high"
    /\ now > echo[p].rise
    /\ echo' = [echo EXCEPT ![p] = [phase |-> "low", rise |-> echo[p].rise, fall |-> now]]
    /\ UNCHANGED <<sensors, numbering, gpio, now, sinceStep, pc, cur, locals, result, kept, target, cell, parked, calls, reads>>

\* ---------------------------------------------------------- specification
\* the sensors a caller of the class works with
ApiSensors == {1}

Next ==
    \/ \E s \in ApiSensors, args \in SonarInputs :
          Construct(s, args[1], args[2], args[3])
    \/ \E s \in ApiSensors : InitHw49(s)
    \/ InitHw51
    \/ InitHw52
    \/ InitHw53
    \/ \E s \in ApiSensors : GetRange73(s)
    \/ GetRange74
    \/ GetRange75
    \/ GetRange77
    \/ GetRange78
    \/ GetRange79
    \/ GetRange82
    \/ GetRange83
    \/ GetRange88
    \/ GetRange89
    \/ GetRange94
    \/ Resume
    \/ Cleanup
    \/ Tick
    \/ \E p \in EchoPins : EchoRise(p)
    \/ \E p \in EchoPins : EchoFall(p)

Spec == Init /\ [][Next]_vars

\* ------------------------------------------------- a stable simulated target
\* The simulation of the spec's tests: the sensor answers every trigger with an
\* echo pulse that rises target.delay ticks after the trigger's falling edge
\* and lasts target.width ticks (or with nothing), and the simulated clock
\* advances by one tick at each time.time() call and at no other time.
StableTargets ==
    {NoTarget} \cup [delay : 0..MaxDelay, width : 1..MaxWidth]
StableInit == Started /\ target \in StableTargets /\ cell = "off"

TimeSteps == {"g77", "g78", "g79", "g83", "g89"}
SchedulePending ==
    /\ pc = "g77" /\ sinceStep = 0
    /\ echo[Self.gpio_echo].phase = "armed" /\ echo[Self.gpio_echo].rise = -1
    /\ target.delay >= 0
RiseDue ==
    /\ pc # "idle"
    /\ echo[Self.gpio_echo].phase = "armed" /\ echo[Self.gpio_echo].rise # -1
    /\ now >= echo[Self.gpio_echo].rise
FallDue ==
    /\ pc # "idle"
    /\ echo[Self.gpio_echo].phase = "high" /\ echo[Self.gpio_echo].rise # -1
    /\ now >= echo[Self.gpio_echo].rise + target.width
Quiet == ~SchedulePending /\ ~RiseDue /\ ~FallDue

\* the simulated sensor schedules its answer to the trigger just received
StableArm ==
    /\ SchedulePending
    /\ echo' = [echo EXCEPT ![Self.gpio_echo].rise = now + target.delay]
    /\ UNCHANGED <<sensors, numbering, gpio, now, sinceStep, pc, cur, locals, result,
                   kept, target, cell, parked, calls, reads>>
StableRise == RiseDue /\ EchoRise(Self.gpio_echo)
StableFall == FallDue /\ EchoFall(Self.gpio_echo)
StableTick == Quiet /\ pc \in TimeSteps /\ sinceStep = 0 /\ Tick
StableStep(A) == pc \in Measuring /\ Quiet /\ (pc \in TimeSteps => sinceStep = 1) /\ A

StableNext ==
    \/ \E s \in ApiSensors, args \in SonarInputs :
          Construct(s, args[1], args[2], args[3])
    \/ \E s \in ApiSensors : InitHw49(s)
    \/ InitHw51
    \/ InitHw52
    \/ InitHw53
    \/ \E s \in ApiSensors : GetRange73(s)
    \/ StableStep(GetRange74)
    \/ StableStep(GetRange75)
    \/ StableStep(GetRange77)
    \/ StableStep(GetRange78)
    \/ StableStep(GetRange79)
    \/ StableStep(GetRange82)
    \/ StableStep(GetRange83)
    \/ StableStep(GetRange88)
    \/ StableStep(GetRange89)
    \/ StableStep(GetRange94)
    \/ ResumeKeep
    \/ Cleanup
    \/ StableTick
    \/ StableArm
    \/ StableRise
    \/ StableFall

StableSpec == StableInit /\ [][StableNext]_vars

\* ------------------------------------------------- an adjusted wall clock
\* time.time() reads the system's wall clock, which the system may set back
\* (an NTP step, a change by hand) while a call is running; it is set back
\* again only once the call's timestamps have caught up with it
ClockAdjust ==
    /\ pc \in Measuring
    /\ now >= start_time /\ now >= stop_time /\ now >= iteration_start_time
    /\ \E d \in 1..MaxSkew :
          /\ now - d >= (calls - 1) * CallPeriod
          /\ now' = now - d
    /\ UNCHANGED <<sensors, hw, sinceStep, pc, cur, locals, result, kept, target, cell, parked, calls, reads>>

\* the constructor arguments of the runs with an adjusted clock
WallInputs == { <<400, 1400, NaN>> }
WallNext ==
    \/ \E s \in ApiSensors, args \in WallInputs :
          Construct(s, args[1], args[2], args[3])
    \/ \E s \in ApiSensors : InitHw49(s)
    \/ InitHw51
    \/ InitHw52
    \/ InitHw53
    \/ \E s \in ApiSensors : GetRange73(s)
    \/ GetRange74
    \/ GetRange75
    \/ GetRange77
    \/ GetRange78
    \/ GetRange79
    \/ GetRange82
    \/ GetRange83
    \/ GetRange88
    \/ GetRange89
    \/ GetRange94
    \/ Resume
    \/ Cleanup
    \/ Tick
    \/ \E p \in EchoPins : EchoRise(p)
    \/ \E p \in EchoPins : EchoFall(p)
    \/ ClockAdjust
WallSpec == Init /\ [][WallNext]_vars

\* ------------------------------------------------------ failing hardware
\* RPi.GPIO raises RuntimeError when a line cannot be claimed, written or
\* read; neither init_hw nor get_range has a try statement, so the exception
\* leaves the method at the GPIO call that raised it
GpioCalls == {"i51", "i52", "i53", "g75", "g82", "g88"}
\* a failed GPIO call answered with the no-echo value instead of an exception
GpioFaultAsNoEcho ==
    /\ pc \in GpioCalls
    /\ pc' = "r85"
    /\ result' = NaN
    /\ sinceStep' = 0
    /\ UNCHANGED <<sensors, hw, now, cur, locals, kept, target, cell, parked, calls, reads>>
\* lines 51, 52, 53, 75, 82, 88: the GPIO call about to run raises
GpioRaises ==
    /\ pc \in GpioCalls
    /\ pc' = "raised"
    /\ sinceStep' = 0
    /\ UNCHANGED <<sensors, hw, now, cur, locals, result, kept, target, cell, parked, calls, reads>>
\* line 49 or line 73: the first GPIO call of a method raises
InitHw49Raises(s) ==
    /\ pc = "idle"
    /\ sensors[s].constructed
    /\ cur' = s
    /\ pc' = "raised"
    /\ sinceStep' = 0
    /\ UNCHANGED <<sensors, hw, now, locals, result, kept, target, cell, parked, calls, reads>>
GetRange73Raises(s) ==
    /\ pc = "idle"
    /\ sensors[s].constructed
    /\ calls < MaxCalls
    /\ calls' = calls + 1
    /\ cur' = s
    /\ pc' = "raised"
    /\ sinceStep' = 0
    /\ UNCHANGED <<sensors, hw, now, locals, result, kept, target, cell, parked, reads>>

FaultNext ==
    \/ Next
    \/ GpioRaises
    \/ \E s \in ApiSensors : InitHw49Raises(s)
    \/ \E s \in ApiSensors : GetRange73Raises(s)
FaultSpec == Init /\ [][FaultNext]_vars

\* ------------------------------------------------------ the sampling cell
\* lines 132-145: try: for right, center, left in turn construct the sonar,
\* init_hw(), print get_range(); finally: GPIO.cleanup()
CellRange == <<100, 8000, Num(0)>>
\* the three sensors face a stable scene: each answers its trigger with the
\* same echo pulse, or with none
CellInit == Started /\ target \in StableTargets /\ cell = "try"

\* the statement of the try block that runs next is one of sensor s
AtConstruct(s) ==
    /\ cell = "try" /\ pc = "idle" /\ calls = s - 1
    /\ ~sensors[s].constructed
AtInitHw(s) ==
    /\ cell = "try" /\ pc = "idle" /\ calls = s - 1
    /\ sensors[s].constructed
    /\ gpio[sensors[s].gpio_echo].dir = "NONE"
AtGetRange(s) ==
    /\ cell = "try" /\ pc = "idle" /\ calls = s - 1
    /\ sensors[s].constructed
    /\ gpio[sensors[s].gpio_echo].dir = "IN"

\* lines 133, 137, 141
CellConstruct(s) ==
    AtConstruct(s) /\ Construct(s, CellRange[1], CellRange[2], CellRange[3])
\* lines 134, 138, 142
CellInitHw(s) == AtInitHw(s) /\ InitHw49(s)
CellInitHwRaises(s) == AtInitHw(s) /\ InitHw49Raises(s)
\* lines 135, 139, 143: the call, then the print of what it returned
CellGetRange(s) == AtGetRange(s) /\ GetRange73(s)
CellGetRangeRaises(s) == AtGetRange(s) /\ GetRange73Raises(s)
CellGoOn == cell = "try" /\ pc \in Returned \cup {"r53"} /\ Resume

\* the try block is left: by its last statement or by an exception
FinallyOnlyOnSuccess == pc = "idle" /\ calls = Cardinality(Sensors)
FinallyRuns ==
    \/ pc = "idle" /\ calls = Cardinality(Sensors)
    \/ pc = "raised"
\* lines 144-145: finally: GPIO.cleanup()
CellFinally ==
    /\ cell = "try"
    /\ FinallyRuns
    /\ cell' = "done"
    /\ numbering' = "UNSET"
    /\ gpio' = [p \in Pins |-> [dir |-> "NONE", level |-> 0]]
    /\ UNCHANGED <<sensors, echo, now, sinceStep, pc, cur, locals, result, kept, target, parked, calls, reads>>

CellNext ==
    \/ \E s \in Sensors : CellConstruct(s)
    \/ \E s \in Sensors : CellInitHw(s)
    \/ \E s \in Sensors : CellInitHwRaises(s)
    \/ InitHw51
    \/ InitHw52
    \/ InitHw53
    \/ \E s \in Sensors : CellGetRange(s)
    \/ \E s \in Sensors : CellGetRangeRaises(s)
    \/ StableStep(GetRange74)
    \/ StableStep(GetRange75)
    \/ StableStep(GetRange77)
    \/ StableStep(GetRange78)
    \/ StableStep(GetRange79)
    \/ StableStep(GetRange82)
    \/ StableStep(GetRange83)
    \/ StableStep(GetRange88)
    \/ StableStep(GetRange89)
    \/ StableStep(GetRange94)
    \/ GpioRaises
    \/ CellGoOn
    \/ CellFinally
    \/ StableTick
    \/ StableArm
    \/ StableRise
    \/ StableFall
CellSpec == CellInit /\ [][CellNext]_vars
\* the notebook kernel keeps running the cell
CellFairSpec == CellSpec /\ WF_vars(CellNext)

\* ------------------------------------------ two sensors, two threads
\* Two threads, each working with its own sensor on its own lines; one runs
\* while the other is suspended between two calls, inside init_hw, or inside
\* get_range with its trigger pulse begun or just ended (before the first
\* timestamp of the call is taken).
SwitchPoints == {"idle", "i51", "i52", "i53", "g74", "g75", "g77"}
PairInputs == { <<400, 1400, NaN>> }
ThisThread ==
    [pc |-> pc, cur |-> cur, start_time |-> start_time, stop_time |-> stop_time,
     iteration_start_time |-> iteration_start_time, sawLow |-> sawLow,
     sawHigh |-> sawHigh, result |-> result, sinceStep |-> sinceStep]
\* the scheduler suspends the running thread and resumes the other
Switch ==
    /\ pc \in SwitchPoints
    /\ parked' = ThisThread
    /\ pc' = parked.pc
    /\ cur' = parked.cur
    /\ start_time' = parked.start_time
    /\ stop_time' = parked.stop_time
    /\ iteration_start_time' = parked.iteration_start_time
    /\ sawLow' = parked.sawLow
    /\ sawHigh' = parked.sawHigh
    /\ result' = parked.result
    /\ sinceStep' = parked.sinceStep
    /\ UNCHANGED <<sensors, hw, now, kept, target, cell, calls>>

\* time is let pass where a wait loop is about to sample the clock
PairTick == pc \in {"g83", "g89"} /\ Tick

PairNext ==
    \/ \E args \in PairInputs : Construct(cur, args[1], args[2], args[3])
    \/ InitHw49(cur)
    \/ InitHw51
    \/ InitHw52
    \/ InitHw53
    \/ GetRange73(cur)
    \/ GetRange74
    \/ GetRange75
    \/ GetRange77
    \/ GetRange78
    \/ GetRange79
    \/ GetRange82
    \/ GetRange83
    \/ GetRange88
    \/ GetRange89
    \/ GetRange94
    \/ Resume
    \/ PairTick
    \/ \E p \in EchoPins : EchoRise(p)
    \/ \E p \in EchoPins : EchoFall(p)
    \/ Switch
PairSpec == Init /\ [][PairNext]_vars

\* a running get_range keeps executing and the clock keeps advancing
GetRangeStep ==
    \/ GetRange74 \/ GetRange75 \/ GetRange77 \/ GetRange78 \/ GetRange79
    \/ GetRange82 \/ GetRange83 \/ GetRange88 \/ GetRange89 \/ GetRange94
FairSpec == Spec /\ WF_vars(GetRangeStep) /\ WF_vars(Tick)

\* ================================================================ claims
Abs(x) == IF x < 0 THEN -x ELSE x
ValidBounds(self) == 0 <= self.min_range /\ self.min_range < self.max_range
\* the echo pin of the sensor whose call runs or has just ended
EchoLine == echo[Self.gpio_echo]
PulseKnown == EchoLine.rise # -1 /\ EchoLine.fall # -1
PulseWidth == EchoLine.fall - EchoLine.rise
\* a measured width is off by at most the polls around the two edges
PollTolerance == 5 * MaxStep * HALF_SONIC_SPEED

\* C1: for a sensor with 0 <= min_range < max_range, a get_range call whose
\* echo pulse began by the time the wait began and had a width w with
\* min_range <= w * 171.5 <= max_range returns w * 171.5, up to the polling
\* granularity (also when w is larger than max_wait_time).
C1_ReturnsPulseWidthAsRange ==
    ( /\ pc \in Returned
      /\ sawHigh
      /\ ValidBounds(Self)
      /\ PulseKnown
      /\ EchoLine.rise <= iteration_start_time
      /\ Self.min_range <= PulseWidth * HALF_SONIC_SPEED
      /\ PulseWidth * HALF_SONIC_SPEED <= Self.max_range )
    => ( /\ ~isnan(result)
         /\ Abs(result.val - PulseWidth * HALF_SONIC_SPEED) <= PollTolerance )

\* C2: a get_range call that has polled the echo line and read it low on
\* every poll ends by returning NaN, at a poll whose timestamp is more than
\* max_wait_time after iteration_start_time; it raises nothing and returns
\* no number.
C2_NoEchoOnSilentLine ==
    (pc \in Ended /\ sawLow /\ ~sawHigh)
    => ( /\ pc = "r85"
         /\ isnan(result)
         /\ start_time - iteration_start_time > Self.max_wait_time )
C2_Witness ==
    /\ pc = "r85" /\ sawLow /\ ~sawHigh /\ ValidBounds(Self)
    /\ EchoLine.phase = "armed"

\* C3: a get_range call that read the echo line high on its first poll and on
\* every later poll ends by returning exactly max_range, at a poll whose
\* timestamp is more than max_wait_time after iteration_start_time.
C3_MaxRangeOnStuckHighLine ==
    (pc \in Ended /\ sawHigh /\ ~sawLow)
    => ( /\ pc = "r91"
         /\ result = Num(Self.max_range)
         /\ stop_time - iteration_start_time > Self.max_wait_time )
C3_Witness ==
    /\ pc = "r91" /\ sawHigh /\ ~sawLow /\ ValidBounds(Self)
    /\ EchoLine.phase = "high"

\* C4: for a sensor with 0 <= min_range < max_range every number get_range
\* returns lies in [min_range, max_range]; a computed range below min_range
\* is returned as min_range, one above max_range as max_range, and one in
\* between as it is.
C4_ResultWithinBounds ==
    (pc \in Returned /\ ValidBounds(Self) /\ ~isnan(result))
    => ( /\ Self.min_range <= result.val
         /\ result.val <= Self.max_range
         /\ pc = "r104" =>
              LET range_m == (stop_time - start_time) * HALF_SONIC_SPEED
              IN  /\ range_m < Self.min_range => result.val = Self.min_range
                  /\ range_m > Self.max_range => result.val = Self.max_range
                  /\ (Self.min_range <= range_m /\ range_m <= Self.max_range)
                        => result.val = range_m )
C4_Witness ==
    /\ pc = "r104" /\ ValidBounds(Self)
    /\ (stop_time - start_time) * HALF_SONIC_SPEED < Self.min_range
    /\ stop_time > start_time
    /\ result = Num(Self.min_range)

\* C5: get_range returns NaN only when it never read the echo line high; once
\* it has read the line high it returns max_range (end-wait timeout) or the
\* clamped range, never NaN.
C5_SentinelsDistinguishable ==
    /\ (pc \in Returned /\ isnan(result)) => (~sawHigh /\ pc = "r85")
    /\ (pc \in Returned /\ sawHigh) => (~isnan(result) /\ pc \in {"r91", "r104"})
    /\ pc = "r91" => (sawHigh /\ result = Num(Self.max_range))
C5_Witness ==
    /\ pc = "r91" /\ sawLow /\ sawHigh /\ ValidBounds(Self)

\* C7: no constructed sensor violates 0 <= min_range < max_range: the
\* constructor rejects every other pair of bounds.
C7_InvalidBoundsRejected ==
    \A s \in Sensors : sensors[s].constructed => ValidBounds(sensors[s])

\* C8: a sensor with valid bounds is constructed with max_wait_time the least
\* whole number of milliseconds that is at least max_range / SONIC_SPEED
\* (12 ms for max_range = 4.0 m), and that value bounds both wait loops: a
\* loop goes on while its timestamp is at most max_wait_time after
\* iteration_start_time and returns at the first one that is later.
WithinWait(t, self) == (t - iteration_start_time - 1) * SONIC_SPEED < self.max_range
C8_MaxWaitIsCeiling ==
    /\ MaxWaitTime(8000) = 12
    /\ \A s \in Sensors :
          (sensors[s].constructed /\ ValidBounds(sensors[s])) =>
             /\ sensors[s].max_wait_time * SONIC_SPEED >= sensors[s].max_range
             /\ (sensors[s].max_wait_time - 1) * SONIC_SPEED < sensors[s].max_range
    /\ (pc \in Measuring \cup Returned /\ ValidBounds(Self)) =>
          /\ pc = "r85" => ~WithinWait(start_time, Self)
          /\ pc = "r91" => ~WithinWait(stop_time, Self)
          /\ (pc = "g82" /\ sawLow) => WithinWait(start_time, Self)
          /\ pc \in {"g88", "g94", "r104"} => WithinWait(stop_time, Self)
C8_Witness ==
    /\ pc = "r91" /\ sawLow /\ ValidBounds(Self)
    /\ Self.max_range = 1400 /\ Self.max_wait_time = 3
    /\ stop_time - iteration_start_time = 4

\* C6: every get_range call ends, whatever the echo line does, as long as the
\* clock advances: a wait loop goes on only while its last timestamp is at
\* most max_wait_time after iteration_start_time, so the call is over within
\* max_wait_time plus the polls in flight (three steps) of the start of the
\* wait, and it ends with NaN, max_range or the clamped range.
C6_WaitBounded ==
    /\ (pc = "g82" /\ sawLow) => start_time - iteration_start_time <= Self.max_wait_time
    /\ (pc = "g88" /\ stop_time > iteration_start_time)
          => stop_time - iteration_start_time <= Self.max_wait_time
    /\ (pc \in {"g82", "g83", "g88", "g89", "g94"} /\ Self.max_wait_time >= 0)
          => now - iteration_start_time <= Self.max_wait_time + 3 * MaxStep
    /\ pc = "r85" => (isnan(result) /\ start_time - iteration_start_time > Self.max_wait_time)
    /\ pc = "r91" => (result = Num(Self.max_range)
                       /\ stop_time - iteration_start_time > Self.max_wait_time)
    /\ pc = "r104" => (~isnan(result) /\ result.val \in
                          {Self.min_range, Self.max_range,
                           (stop_time - start_time) * HALF_SONIC_SPEED})
C6_GetRangeTerminates ==
    /\ []C6_WaitBounded
    /\ (pc \in Measuring) ~> (pc \in Ended)
C6_Witness ==
    /\ pc = "r91" /\ ValidBounds(Self)
    /\ stop_time - iteration_start_time = Self.max_wait_time + 3 * MaxStep

\* C10: when init_hw returns, the trigger line is an output at low level and
\* the echo line is an input; init_hw drives the trigger line only once it
\* is an output (no step of it raises), and no step of it sets a line high.
InInitHw == pc \in {"i51", "i52", "i53"}
C10_AfterInitHw ==
    /\ pc = "r53" => /\ gpio[Self.gpio_trigger] = [dir |-> "OUT", level |-> 0]
                     /\ gpio[Self.gpio_echo].dir = "IN"
    /\ pc = "i52" => gpio[Self.gpio_trigger].dir = "OUT"
C10_InitHwStep ==
    InInitHw =>
       /\ pc' # "raised"
       /\ \A p \in Pins : gpio'[p].level = 1 => gpio[p].level = 1
       /\ \A p \in Pins : gpio'[p].level # gpio[p].level => gpio[p].dir = "OUT"
C10_InitHwLeavesLinesSafe ==
    /\ []C10_AfterInitHw
    /\ [][C10_InitHwStep]_vars
C10_Witness ==
    /\ pc = "r53"
    /\ gpio[Self.gpio_trigger] = [dir |-> "OUT", level |-> 0]
    /\ gpio[Self.gpio_echo].dir = "IN"
    /\ numbering = "BCM"

\* C9: against a stable simulated target, every get_range call on a sensor
\* returns the value the call before it returned, whether that call ended
\* with a range, with NaN or with max_range.
C9_StableTargetSameRange ==
    (pc \in Returned /\ kept.has) => result = kept.val
C9_Witness ==
    /\ pc = "r104" /\ kept.has /\ calls = 2 /\ ValidBounds(Self)
    /\ Self.min_range < result.val /\ result.val < Self.max_range
    /\ now >= CallPeriod

\* C13: get_range drives its trigger line high once (line 73), sleeps, and
\* drives it low once (line 75), in that order, before it samples any
\* timestamp and before it reads the echo line; from line 77 on and at every
\* return the trigger line is low, and no other step changes its level.
TriggerLevel == gpio[Self.gpio_trigger].level
C13_TriggerPulsed ==
    /\ pc \in {"g74", "g75"} => TriggerLevel = 1
    /\ pc \in (Measuring \ {"g74", "g75"}) \cup Returned => TriggerLevel = 0
    /\ pc \in {"g74", "g75", "g77", "g78", "g79"} => (~sawLow /\ ~sawHigh)
C13_TriggerStep ==
    /\ \A p \in Pins :
          (gpio'[p].level = 1 /\ gpio[p].level = 0)
             => (pc = "idle" /\ pc' = "g74" /\ p = sensors[cur'].gpio_trigger)
    /\ \A p \in Pins :
          (pc \in Measuring /\ gpio'[p].level = 0 /\ gpio[p].level = 1)
             => (pc = "g75" /\ pc' = "g77" /\ p = Self.gpio_trigger)
    /\ (pc = "idle" /\ pc' = "g74") => gpio'[sensors[cur'].gpio_trigger].level = 1
C13_TriggerPulseOnce ==
    /\ []C13_TriggerPulsed
    /\ [][C13_TriggerStep]_vars
C13_Witness ==
    /\ pc = "r104" /\ sawLow /\ sawHigh
    /\ TriggerLevel = 0 /\ gpio[Self.gpio_trigger].dir = "OUT"
    /\ EchoLine.fall > EchoLine.rise /\ EchoLine.rise >= iteration_start_time

\* C14: when get_range returns max_range from the timeout of its second
\* loop, the echo line has been high for longer than max_wait_time:
\* stop_time - start_time > max_wait_time.
C14_MaxRangeMeansPulseOutlasted ==
    (pc = "r91" /\ ValidBounds(Self))
    => stop_time - start_time > Self.max_wait_time

\* C16: the fields of a constructed sensor are those its constructor set,
\* and no step of init_hw or get_range (whatever the call returns or raises)
\* changes any of them.
C16_ConfigAsConstructed ==
    \A s \in Sensors : sensors[s].constructed =>
       /\ sensors[s].name = CellArgs(s).name
       /\ sensors[s].gpio_trigger = CellArgs(s).gpio_trigger
       /\ sensors[s].gpio_echo = CellArgs(s).gpio_echo
       /\ sensors[s].max_wait_time = MaxWaitTime(sensors[s].max_range)
       /\ \E args \in SonarInputs :
             sensors[s] = NewSonar(s, args[1], args[2], args[3])
C16_ConfigStep ==
    \A s \in Sensors : sensors[s].constructed => sensors'[s] = sensors[s]
C16_ConfigurationImmutable ==
    /\ []C16_ConfigAsConstructed
    /\ [][C16_ConfigStep]_vars
C16_Witness ==
    /\ pc = "r104" /\ calls = 2
    /\ gpio[Self.gpio_echo].dir = "IN"
    /\ Self = NewSonar(cur, 400, 1400, NaN)
    /\ result.val > Self.min_range /\ result.val < Self.max_range

\* C18: when get_range computes time_elapsed (line 94), stop_time is not
\* earlier than start_time, also when the echo was read low, then high once,
\* then low at the first read of the second loop.
C18_ElapsedNonNegative ==
    pc \in {"g94", "r104"} => stop_time >= start_time

\* C15: within a get_range call no timestamp sample is earlier than a sample
\* taken before it: each of lines 77, 78, 79, 83 and 89 assigns a value no
\* smaller than the timestamps the call already holds, also when the wall
\* clock is adjusted during the call.
C15_SampleStep ==
    /\ (pc = "g78" /\ pc' = "g79") => stop_time' >= start_time
    /\ (pc = "g79" /\ pc' = "g82") => iteration_start_time' >= stop_time
    /\ (pc = "g83" /\ pc' \in {"g82", "r85"})
          => (start_time' >= start_time /\ start_time' >= iteration_start_time)
    /\ (pc = "g89" /\ pc' \in {"g88", "r91"})
          => (stop_time' >= start_time /\ stop_time' >= iteration_start_time)
C15_SamplesNeverDecrease == [][C15_SampleStep]_vars

\* C12: a GPIO call of init_hw or get_range that fails ends the method with
\* the exception: the method runs no further statement (the call is not
\* retried), and it returns nothing, so a return of init_hw comes only from
\* line 53 and a return of NaN, max_range or a range only from lines 85, 91
\* and 104.
C12_FaultStep ==
    /\ (pc \in {"i51", "i53"} /\ ~CanSetup /\ pc' # pc) => pc' = "raised"
    /\ (pc \in {"i52", "g75"} /\ ~CanOutput(Self.gpio_trigger) /\ pc' # pc)
          => pc' = "raised"
    /\ (pc \in {"g82", "g88"} /\ ~CanInput(Self.gpio_echo) /\ pc' # pc)
          => pc' = "raised"
    /\ (pc' = "raised" /\ pc # "raised")
          => (pc \in GpioCalls \cup {"idle"} /\ gpio' = gpio /\ result' = result)
    /\ pc = "raised" => (pc' \in {"raised", "idle"} /\ gpio' = gpio)
    /\ (pc' = "r53" /\ pc # "r53") => pc = "i53"
    /\ (pc' = "r85" /\ pc # "r85") => pc = "g83"
    /\ (pc' = "r91" /\ pc # "r91") => pc = "g89"
    /\ (pc' = "r104" /\ pc # "r104") => pc = "g94"
C12_HardwareErrorEndsCall == [][C12_FaultStep]_vars
C12_Witness ==
    /\ pc = "raised" /\ sawLow /\ ~sawHigh
    /\ gpio[Self.gpio_echo].dir = "IN" /\ gpio[Self.gpio_trigger].dir = "OUT"
    /\ result = NaN

\* C17: in the sampling cell a GPIO error raised by one sensor's init_hw or
\* get_range ends only that sensor's turn: when the cell is over, every
\* sensor (right, center, left) has been constructed and sampled.
C17_OtherSensorsStillSampled ==
    cell = "done" => \A s \in Sensors : sensors[s].constructed

\* C19: the sampling cell calls GPIO.cleanup() exactly once on every exit
\* path: the cell always reaches its end, whether the three sensors were all
\* sampled or a call raised part-way; the lines are released there and only
\* there; and nothing of the cell runs after the release.
Released == numbering = "UNSET" /\ \A p \in Pins : gpio[p].dir = "NONE"
C19_ReleaseStep ==
    /\ cell = "done" =>
          (cell' = "done" /\ pc' = pc /\ UNCHANGED <<sensors, numbering, gpio, cur, calls>>)
    /\ (numbering = "BCM" /\ numbering' = "UNSET") => (cell = "try" /\ cell' = "done")
    /\ (cell = "try" /\ cell' = "done")
          => (pc = "raised" \/ (pc = "idle" /\ calls = Cardinality(Sensors)))
C19_CleanupExactlyOnce ==
    /\ [](cell = "done" => Released)
    /\ [][C19_ReleaseStep]_vars
    /\ <>(cell = "done")
C19_Witness ==
    /\ cell = "done" /\ pc = "raised" /\ calls = 2
    /\ sensors[2].constructed /\ ~sensors[3].constructed
    /\ Released

\* C11: with two sensors on disjoint lines, whatever the interleaving of
\* their init_hw and get_range calls, a step of one sensor's call changes
\* neither the other sensor's fields nor the mode or level of the other's
\* trigger and echo lines, does not trigger the other's HC-SR04, and takes
\* its loop decisions from its own echo line only.
C11_IsolationStep ==
    /\ \A o \in Sensors :
          (sensors[o].constructed /\ o # cur /\ o # cur') =>
             /\ sensors'[o] = sensors[o]
             /\ gpio'[sensors[o].gpio_trigger] = gpio[sensors[o].gpio_trigger]
             /\ gpio'[sensors[o].gpio_echo] = gpio[sensors[o].gpio_echo]
             /\ echo'[sensors[o].gpio_echo].phase = "armed"
                   => echo[sensors[o].gpio_echo].phase = "armed"
    /\ (cur' = cur /\ pc = "g82" /\ pc' = "g88") => InputLevel(Self.gpio_echo) = 1
    /\ (cur' = cur /\ pc = "g82" /\ pc' = "g83") => InputLevel(Self.gpio_echo) = 0
    /\ (cur' = cur /\ pc = "g88" /\ pc' = "g89") => InputLevel(Self.gpio_echo) = 1
    /\ (cur' = cur /\ pc = "g88" /\ pc' = "g94") => InputLevel(Self.gpio_echo) = 0
C11_SensorsIndependent == [][C11_IsolationStep]_vars
C11_Witness ==
    /\ pc \in {"g83", "g89"} /\ sawLow /\ parked.pc = "g75"
    /\ cur # parked.cur
    /\ gpio[sensors[parked.cur].gpio_trigger].level = 1
    /\ gpio[Self.gpio_trigger].level = 0
    /\ echo[sensors[parked.cur].gpio_echo].phase = "low"

=============================================================================
